---- MODULE Spec2Model ----
(***************************************************************************)
(* Model of agent/src/graph.py: a module-level script that builds a chat   *)
(* model, builds a PayLinkTools client, asks it for the remote tool list   *)
(* and hands both to create_agent.                                         *)
(*                                                                         *)
(* The script's own behaviour is the order of its statements and the       *)
(* bindings they make.  Every call it makes goes into a library that is    *)
(* not part of this repository; such a call either returns a value or      *)
(* raises, and an exception is uncaught (the script has no try/except),    *)
(* so it ends the execution of the module with the later names unbound.    *)
(*                                                                         *)
(* A module-level name is modelled as a sequence of length at most one:    *)
(* <<>> while the name is unbound, <<v>> once it is bound to v.            *)
(***************************************************************************)
EXTENDS Naturals, Sequences, FiniteSets

VARIABLES pc, llm, client, tools, agent, listed

vars == <<pc, llm, client, tools, agent, listed>>

\* Longest tool list the remote service answers with.
MaxTools == 3

\* Names of the tools the remote service may expose.
ToolNames == {"charge_card", "refund", "payout"}

\* graph.py:7, the model identifier given to init_chat_model.
ModelId == "gpt-4o-mini"

\* graph.py:10, the endpoint given to PayLinkTools.
BaseUrl == "http://0.0.0.0:5003/mcp"

\* Every value client.list_tools() may return: the script does not
\* constrain it (no length, order or uniqueness check follows the call).
Catalogs == UNION {[1..n -> ToolNames] : n \in 0..MaxTools}

Unbound == <<>>

\* The outcome of the one call of client.list_tools().
NotCalled == [status |-> "not_called", value |-> <<>>]
Raised == [status |-> "raised", value |-> <<>>]
Returned(ts) == [status |-> "returned", value |-> ts]

Init ==
    /\ pc = "import"
    /\ llm = Unbound
    /\ client = Unbound
    /\ tools = Unbound
    /\ agent = Unbound
    /\ listed = NotCalled

\* An uncaught exception ends the module: no later statement runs and no
\* name is bound by the statement that raised.
Abort ==
    /\ pc' = "aborted"
    /\ UNCHANGED <<llm, client, tools, agent>>

\* graph.py:1-5, the three imports.
Import ==
    /\ pc = "import"
    /\ \/ pc' = "llm" /\ UNCHANGED <<llm, client, tools, agent>>
       \/ Abort
    /\ UNCHANGED listed

\* graph.py:7, llm = init_chat_model(model="gpt-4o-mini")
InitChatModel ==
    /\ pc = "llm"
    /\ \/ /\ llm' = <<[model |-> ModelId]>>
          /\ pc' = "client"
          /\ UNCHANGED <<client, tools, agent>>
       \/ Abort
    /\ UNCHANGED listed

\* graph.py:10, client = PayLinkTools(base_url="http://0.0.0.0:5003/mcp")
NewPayLinkTools ==
    /\ pc = "client"
    /\ \/ /\ client' = <<[base_url |-> BaseUrl]>>
          /\ pc' = "tools"
          /\ UNCHANGED <<llm, tools, agent>>
       \/ Abort
    /\ UNCHANGED listed

\* The slip of catching the exception of list_tools and going on with an
\* empty tool list.
ListToolsSwallowed ==
    /\ listed' = Raised
    /\ tools' = <<<<>>>>
    /\ pc' = "agent"
    /\ UNCHANGED <<llm, client, agent>>

\* graph.py:12, the call client.list_tools() raises.
ListToolsRaises ==
    /\ listed' = Raised
    /\ Abort

\* graph.py:12, tools = client.list_tools()
ListTools ==
    /\ pc = "tools"
    /\ client # Unbound
    /\ \/ \E ts \in Catalogs :
             /\ listed' = Returned(ts)
             /\ tools' = <<ts>>
             /\ pc' = "agent"
             /\ UNCHANGED <<llm, client, agent>>
       \/ ListToolsRaises

\* graph.py:14-17, the arguments create_agent is called with.
AgentArgs == [model |-> llm[1], tools |-> tools[1]]

\* graph.py:14-17, agent = create_agent(model=llm, tools=tools)
CreateAgent ==
    /\ pc = "agent"
    /\ llm # Unbound
    /\ tools # Unbound
    /\ \/ /\ agent' = <<AgentArgs>>
          /\ pc' = "done"
          /\ UNCHANGED <<llm, client, tools>>
       \/ Abort
    /\ UNCHANGED listed

Next ==
    \/ Import
    \/ InitChatModel
    \/ NewPayLinkTools
    \/ ListTools
    \/ CreateAgent

Spec == Init /\ [][Next]_vars

TypeOK ==
    /\ pc \in {"import", "llm", "client", "tools", "agent", "done", "aborted"}
    /\ llm \in {Unbound, <<[model |-> ModelId]>>}
    /\ client \in {Unbound, <<[base_url |-> BaseUrl]>>}
    /\ tools \in {Unbound} \cup {<<ts>> : ts \in Catalogs}
    /\ listed \in {NotCalled, Raised} \cup {Returned(ts) : ts \in Catalogs}
    /\ Len(agent) <= 1

\* C10: an agent exists only once list_tools has returned, and it was built
\* with exactly the list that call returned; once list_tools has raised, the
\* script is aborted and no agent exists.
AgentOnlyFromSuccessfulDiscovery ==
    /\ agent # Unbound =>
           /\ listed.status = "returned"
           /\ tools = <<listed.value>>
           /\ agent[1].tools = listed.value
    /\ listed.status = "raised" => (agent = Unbound /\ pc = "aborted")

\* C10: the agent has been built from a discovered list of several tools.
AgentBuiltWithDiscoveredTools ==
    /\ pc = "done"
    /\ agent # Unbound
    /\ listed.status = "returned"
    /\ Len(agent[1].tools) >= 2

\* The other case of C10: list_tools raised and the script stopped there.
DiscoveryFailedAtStartup ==
    /\ listed.status = "raised"
    /\ pc = "aborted"
    /\ client # Unbound

====
